---- MODULE Spec2Model ----
(***************************************************************************)
(* Model of vhost_manager.py (class VHost): the in-memory text of the      *)
(* virtual host file, the operations has_domain / add / remove /           *)
(* list_domains / save / close, and the properties claimed of them.        *)
(* Spec is one session with the record of its last call, SpecDoc the       *)
(* Documents that add and remove calls reach, SpecTwo two sessions that    *)
(* have the same file open.                                                *)
(*                                                                         *)
(* Text.  A Python string is a sequence of tokens.  A token is either one  *)
(* character of a caller-supplied name (domain, alias, port) or a maximal  *)
(* run of literal text of the templates, cut at the places where the code  *)
(* searches ("ServerName", "ServerAlias", "<VirtualHost", "*:", ">",       *)
(* "</VirtualHost>", blanks that strip() removes, "\n").  Names are built  *)
(* from the characters j, q, z and digits, none of which occurs in the     *)
(* literal text of the templates, so `needle in text` on tokens is the     *)
(* same relation as on characters for every needle the operations build.   *)
(***************************************************************************)
EXTENDS Integers, Sequences, FiniteSets, TLC

VARIABLES content, write_file, file, file_closed, last, nops

vars == <<content, write_file, file, file_closed, last, nops>>

\* two sessions on one file: the file on disk, and for each session whether
\* it is open, its _content and _write_file, what it read when it opened,
\* the record of the last call and the number of add and remove calls
VARIABLES disk, s_state, s_content, s_write_file, s_loaded, s_last, s_edits

two_vars == <<disk, s_state, s_content, s_write_file, s_loaded, s_last, s_edits>>

----------------------------------------------------------------------------
(* Bounds and inputs *)

MaxOps == 2

\* add and remove calls of the two sessions together
MaxEdits == 2

NL == "\n"

Domains == { <<"q">>, <<"q", "z">>, <<"q", "j">> }

Ports == { <<"8", "0">>, <<"8", "0", "8", "0">> }

AliasLists ==
    { <<>>,
      << <<"j">> >>,
      << <<"z", "z">>, <<"z", "z">> >>,
      << <<"j">>, <<"z", "z">> >> }

----------------------------------------------------------------------------
(* Python string primitives on token sequences *)

\* needle in text
Contains(text, needle) ==
    \E i \in 1..(Len(text) - Len(needle) + 1) :
        SubSeq(text, i, i + Len(needle) - 1) = needle

\* index of the first occurrence of the one-token separator, 0 if none
FirstIndex(text, sep) ==
    IF \E i \in 1..Len(text) : text[i] = sep
    THEN CHOOSE i \in 1..Len(text) :
            text[i] = sep /\ \A j \in 1..(i - 1) : text[j] # sep
    ELSE 0

RECURSIVE split(_, _)
\* text.split(sep) for a one-token separator
split(text, sep) ==
    LET i == FirstIndex(text, sep)
    IN  IF i = 0 THEN << text >>
        ELSE << SubSeq(text, 1, i - 1) >> \o split(SubSeq(text, i + 1, Len(text)), sep)

RECURSIVE join(_, _)
\* sep.join(parts)
join(parts, sep) ==
    IF Len(parts) = 0 THEN << >>
    ELSE IF Len(parts) = 1 THEN parts[1]
    ELSE parts[1] \o << sep >> \o join(Tail(parts), sep)

\* text.replace(tok, "") for a one-token pattern
replace_empty(text, tok) == SelectSeq(text, LAMBDA t : t # tok)

IsSpace(t) == t \in { " ", "    ", "        ", NL }

RECURSIVE lstrip(_)
lstrip(text) ==
    IF Len(text) > 0 /\ IsSpace(text[1]) THEN lstrip(Tail(text)) ELSE text

RECURSIVE rstrip(_)
rstrip(text) ==
    IF Len(text) > 0 /\ IsSpace(text[Len(text)])
    THEN rstrip(SubSeq(text, 1, Len(text) - 1)) ELSE text

\* text.strip()
strip(text) == rstrip(lstrip(text))

----------------------------------------------------------------------------
(* Templates and line helpers *)

home_dir == << "./home" >>

get_domaindir(domain) == home_dir \o << "/" >> \o domain

vhost_template_unclosed(DOMAIN_NAME, DOMAIN_DIR, PORT) ==
    << "<VirtualHost", " ", "*:" >> \o PORT \o << ">", NL >>
    \o << "    ", "ServerName", " " >> \o DOMAIN_NAME \o << NL >>
    \o << "    DocumentRoot " >> \o DOMAIN_DIR \o << "/www", NL >>

vhost_template(DOMAIN_NAME, DOMAIN_DIR, PORT) ==
    << "<VirtualHost", " ", "*:" >> \o PORT \o << ">", NL >>
    \o << "    ", "ServerName", " " >> \o DOMAIN_NAME \o << NL >>
    \o << "    DocumentRoot " >> \o DOMAIN_DIR \o << "/www", NL >>
    \o << "    ErrorLog " >> \o DOMAIN_DIR \o << "/logs/error.log", NL >>
    \o << "    CustomLog " >> \o DOMAIN_DIR \o << "/logs/access.log combined", NL >>
    \o << "    <Directory " >> \o DOMAIN_DIR \o << "/www>", NL >>
    \o << "        Options -Indexes +IncludesNOEXEC +SymLinksIfOwnerMatch +ExecCGI", NL >>
    \o << "        allow from all", NL >>
    \o << "        AllowOverride All Options=ExecCGI,Includes,IncludesNOEXEC,Indexes,MultiViews,SymLinksIfOwnerMatch", NL >>
    \o << "    </Directory>", NL >>
    \o << "</VirtualHost>", NL >>

vhost_alias_template(ALIAS) == << "    ", "ServerAlias", " " >> \o ALIAS

get_vhost_line(port) == << "<VirtualHost", " ", "*:" >> \o port \o << ">" >>

get_servername_line(domain) == << "ServerName", " " >> \o domain

get_serveralias(str) == strip(replace_empty(str, "ServerAlias"))

get_servername(str) == strip(replace_empty(str, "ServerName"))

VHostClose == << "</VirtualHost>" >>

----------------------------------------------------------------------------
(* has_domain *)

RECURSIVE has_domain_scan(_, _, _, _, _)
has_domain_scan(lines, i, vhost_tag_open, domain, port) ==
    IF i > Len(lines) THEN FALSE
    ELSE LET line  == lines[i]
             open1 == IF Contains(line, get_vhost_line(port)) THEN TRUE ELSE vhost_tag_open
             open2 == IF Contains(line, VHostClose) THEN FALSE ELSE open1
         IN  IF open2 /\ Contains(line, get_servername_line(domain))
             THEN TRUE
             ELSE has_domain_scan(lines, i + 1, open2, domain, port)

has_domain(c, domain, port) ==
    has_domain_scan(split(c, NL), 1, FALSE, domain, port)

----------------------------------------------------------------------------
(* add *)

add_block_never(c, domain, port) == c

add_block_always(c, domain, port) ==
    c \o << NL >> \o << "<VirtualHost", " ", "*:" >> \o port \o << ">", NL >>
      \o << "    ", "ServerName", " " >> \o domain \o << NL >>
      \o << "</VirtualHost>", NL >>

\* the block is appended only when has_domain does not find it
add_block(c, domain, port) ==
    IF has_domain(c, domain, port) # TRUE
    THEN c \o << NL >> \o vhost_template(domain, get_domaindir(domain), port)
    ELSE c

add_new_alias_unchecked(c1, alias) == alias

\* the aliases that pass `alias_ not in self._content`, in input order;
\* self._content is not reassigned until the scan is over
add_new_alias(c1, alias) == SelectSeq(alias, LAMBDA a : ~Contains(c1, a))

add_alias_lines_reversed(c1, alias) ==
    LET kept == SelectSeq(alias, LAMBDA a : ~Contains(c1, a))
    IN  [k \in 1..Len(kept) |-> << "    ", "ServerAlias", " " >> \o kept[Len(kept) + 1 - k]]

add_alias_lines(c1, alias) ==
    LET kept == add_new_alias(c1, alias)
    IN  [k \in 1..Len(kept) |-> vhost_alias_template(kept[k])]

\* one iteration of the loop of add; st = [i, new, open], i the index of line
add_step(st, line, c1, domain, port, alias) ==
    LET new1  == Append(st.new, line)
        open1 == IF Contains(line, get_vhost_line(port)) THEN TRUE ELSE st.open
        open2 == IF Contains(line, VHostClose) THEN FALSE ELSE open1
    IN  [i |-> st.i + 1,
         new |-> IF open2 /\ Contains(line, get_servername_line(domain))
                 THEN new1 \o add_alias_lines(c1, alias)
                 ELSE new1,
         open |-> open2]

RECURSIVE add_scan(_, _, _, _, _, _)
add_scan(lines, st, c1, domain, port, alias) ==
    IF st.i > Len(lines) THEN st.new
    ELSE add_scan(lines, add_step(st, lines[st.i], c1, domain, port, alias),
                  c1, domain, port, alias)

\* the value of self._content when add returns
add(c, domain, port, alias) ==
    LET c1 == add_block(c, domain, port)
    IN  join(add_scan(split(c1, NL), [i |-> 1, new |-> << >>, open |-> FALSE],
                      c1, domain, port, alias), NL)

----------------------------------------------------------------------------
(* remove *)

remove_in_vhost_unset(in_vhost, domain, line) == in_vhost

\* in_vhost after the ServerName test of one line of an open block
remove_in_vhost(in_vhost, domain, line) ==
    IF Contains(line, get_servername_line(domain)) THEN TRUE ELSE in_vhost

remove_pop_any(remove_alias, alias, line) ==
    remove_alias /\ Contains(line, << "ServerAlias" >>)

\* whether the line just buffered is popped again (alias removal)
remove_pop(remove_alias, alias, line) ==
    /\ remove_alias
    /\ Contains(line, << "ServerAlias" >>)
    /\ \E k \in 1..Len(alias) : alias[k] = get_serveralias(line)

\* whether the buffer is copied to the output at the close marker
remove_flush(remove_alias, in_vhost, tmp_content) ==
    remove_alias \/ (~in_vhost /\ Len(tmp_content) > 0)

\* one iteration of the loop of remove; st = [i, tmp, new, open, in_vhost]
remove_step(st, line, domain, port, alias, remove_alias) ==
    LET open1 == IF Contains(line, get_vhost_line(port)) THEN TRUE ELSE st.open
    IN  IF open1
        THEN LET tmp1 == Append(st.tmp, line)
                 inv1 == remove_in_vhost(st.in_vhost, domain, line)
                 tmp2 == IF open1 /\ inv1 /\ ~remove_alias THEN << >> ELSE tmp1
                 tmp3 == IF remove_pop(remove_alias, alias, line)
                         THEN SubSeq(tmp2, 1, Len(tmp2) - 1)
                         ELSE tmp2
             IN  IF Contains(line, VHostClose)
                 THEN [i |-> st.i + 1,
                       tmp |-> << >>,
                       new |-> IF remove_flush(remove_alias, inv1, tmp3)
                               THEN st.new \o tmp3 ELSE st.new,
                       open |-> FALSE,
                       in_vhost |-> FALSE]
                 ELSE [i |-> st.i + 1, tmp |-> tmp3, new |-> st.new,
                       open |-> open1, in_vhost |-> inv1]
        ELSE [i |-> st.i + 1, tmp |-> st.tmp, new |-> Append(st.new, line),
              open |-> open1, in_vhost |-> st.in_vhost]

RECURSIVE remove_scan(_, _, _, _, _, _)
remove_scan(lines, st, domain, port, alias, remove_alias) ==
    IF st.i > Len(lines) THEN st.new
    ELSE remove_scan(lines,
                     remove_step(st, lines[st.i], domain, port, alias, remove_alias),
                     domain, port, alias, remove_alias)

\* the value of self._content when remove returns
remove(c, domain, port, alias) ==
    IF has_domain(c, domain, port)
    THEN join(remove_scan(split(c, NL),
                          [i |-> 1, tmp |-> << >>, new |-> << >>,
                           open |-> FALSE, in_vhost |-> FALSE],
                          domain, port, alias, Len(alias) > 0), NL)
    ELSE c

----------------------------------------------------------------------------
(* list_domains *)

\* code points of the characters that occur in listed names
Ord(ch) ==
    CASE ch = "0" -> 48 [] ch = "1" -> 49 [] ch = "2" -> 50 [] ch = "3" -> 51
      [] ch = "4" -> 52 [] ch = "5" -> 53 [] ch = "6" -> 54 [] ch = "7" -> 55
      [] ch = "8" -> 56 [] ch = "9" -> 57 [] ch = ":" -> 58
      [] ch = "j" -> 106 [] ch = "q" -> 113 [] ch = "z" -> 122

RECURSIVE StrLess(_, _)
\* s < t for Python strings
StrLess(s, t) ==
    IF Len(t) = 0 THEN FALSE
    ELSE IF Len(s) = 0 THEN TRUE
    ELSE IF s[1] = t[1] THEN StrLess(Tail(s), Tail(t))
    ELSE Ord(s[1]) < Ord(t[1])

RECURSIVE Insert(_, _)
Insert(sortedSeq, s) ==
    IF Len(sortedSeq) = 0 THEN << s >>
    ELSE IF StrLess(s, sortedSeq[1]) THEN << s >> \o sortedSeq
    ELSE << sortedSeq[1] >> \o Insert(Tail(sortedSeq), s)

sorted_not(strs) == strs

RECURSIVE sorted(_)
\* sorted(list of strings)
sorted(strs) ==
    IF Len(strs) = 0 THEN << >>
    ELSE Insert(sorted(SubSeq(strs, 1, Len(strs) - 1)), strs[Len(strs)])

\* line.split("*:")[1].replace(">", "").strip()
parse_port(line) == strip(replace_empty(split(line, "*:")[2], ">"))

\* one iteration of the loop of list_domains; st = [i, domains, open, in_vhost, port]
\* domain = << >> stands for a falsy domain (None or "")
list_step(st, line, domain, port) ==
    LET open1 == IF Contains(line, get_vhost_line(port)) THEN TRUE ELSE st.open
        port1 == IF Contains(line, << "<VirtualHost" >>) THEN parse_port(line) ELSE st.port
        closed == Contains(line, VHostClose)
        open2 == IF closed THEN FALSE ELSE open1
        inv1  == IF closed THEN FALSE ELSE st.in_vhost
    IN  IF domain # << >>
        THEN LET inv2 == IF Contains(line, get_servername_line(domain)) THEN TRUE ELSE inv1
             IN  [i |-> st.i + 1,
                  domains |-> IF open2 /\ inv2 /\ Contains(line, << "ServerAlias" >>)
                              THEN Append(st.domains, get_serveralias(line))
                              ELSE st.domains,
                  open |-> open2, in_vhost |-> inv2, port |-> port1]
        ELSE [i |-> st.i + 1,
              domains |-> IF Contains(line, << "ServerName" >>)
                          THEN Append(st.domains, get_servername(line) \o << ":" >> \o port1)
                          ELSE st.domains,
              open |-> open2, in_vhost |-> inv1, port |-> port1]

RECURSIVE list_scan(_, _, _, _)
list_scan(lines, st, domain, port) ==
    IF st.i > Len(lines) THEN st.domains
    ELSE list_scan(lines, list_step(st, lines[st.i], domain, port), domain, port)

DEFAULT_PORT == << "8", "0" >>

list_domains(c, domain, port) ==
    sorted(list_scan(split(c, NL),
                     [i |-> 1, domains |-> << >>, open |-> FALSE,
                      in_vhost |-> FALSE, port |-> << >>],
                     domain, port))

----------------------------------------------------------------------------
(* The session: state and operations *)

EmptyFile == << >>

\* what a session can find in the file when it opens it: nothing, or what
\* earlier sessions saved
Files ==
    { EmptyFile,
      add(add(add(EmptyFile, <<"q">>, <<"8", "0">>, << >>),
              <<"q", "z">>, <<"8", "0">>, << <<"j">>, <<"z", "z">> >>),
          <<"q", "z">>, <<"8", "0", "8", "0">>, << >>),
      add(add(add(EmptyFile, <<"q", "z">>, <<"8", "0">>, << >>),
              <<"q", "j">>, <<"8", "0">>, << >>),
          <<"q">>, <<"8", "0">>, << <<"z", "z">> >>) }

\* the record of the last call: its arguments, the state it started from,
\* what has_domain returned in it, and whether it repeats the call before it
NoCall == [op |-> "init", domain |-> << >>, port |-> << >>, alias |-> << >>,
           pre |-> << >>, preDirty |-> FALSE, found |-> FALSE, again |-> FALSE]

Call(op, domain, port, alias, found) ==
    [op |-> op, domain |-> domain, port |-> port, alias |-> alias,
     pre |-> content, preDirty |-> write_file, found |-> found,
     again |-> /\ last.op = op /\ last.domain = domain
               /\ last.port = port /\ last.alias = alias]

file_truncate_none(f, pos) == f

\* file.truncate() with the file position at offset pos
file_truncate(f, pos) == SubSeq(f, 1, pos)

\* file.write(data) with the file position at offset pos: the data overwrite
\* what is there and extend the file where they are longer
file_write(f, pos, data) ==
    SubSeq(f, 1, pos) \o data \o SubSeq(f, pos + Len(data) + 1, Len(f))

\* the file when save returns: seek(0), write(self._content), truncate()
save_file_never(f, c, dirty) == f

save_file_always(f, c, dirty) == file_truncate(file_write(f, 0, c), 0 + Len(c))

save_file(f, c, dirty) ==
    IF dirty THEN file_truncate(file_write(f, 0, c), 0 + Len(c)) ELSE f

Sessions == {1, 2}

NoSessionCall == [op |-> "init", s |-> 0, preDirty |-> FALSE, preDisk |-> << >>]

SessionCall(op, s) ==
    [op |-> op, s |-> s, preDirty |-> s_write_file[s], preDisk |-> disk]

\* no session has been constructed
TwoIdle ==
    /\ disk = EmptyFile
    /\ s_state = [s \in Sessions |-> "new"]
    /\ s_content = [s \in Sessions |-> << >>]
    /\ s_write_file = [s \in Sessions |-> FALSE]
    /\ s_loaded = [s \in Sessions |-> << >>]
    /\ s_last = NoSessionCall
    /\ s_edits = 0

Init ==
    /\ TwoIdle
    /\ file \in Files
    /\ content = file
    /\ write_file = FALSE
    /\ file_closed = FALSE
    /\ last = NoCall
    /\ nops = 0

Add(domain, port, alias) ==
    /\ nops < MaxOps
    /\ ~file_closed
    /\ content' = add(content, domain, port, alias)
    /\ write_file' = TRUE
    /\ last' = Call("add", domain, port, alias, has_domain(content, domain, port))
    /\ nops' = nops + 1
    /\ UNCHANGED <<file, file_closed>>
    /\ UNCHANGED two_vars

Remove(domain, port, alias) ==
    /\ nops < MaxOps
    /\ ~file_closed
    /\ LET found == has_domain(content, domain, port)
       IN  /\ content' = remove(content, domain, port, alias)
           /\ write_file' = (IF found THEN TRUE ELSE write_file)
           /\ last' = Call("remove", domain, port, alias, found)
    /\ nops' = nops + 1
    /\ UNCHANGED <<file, file_closed>>
    /\ UNCHANGED two_vars

Save ==
    /\ nops < MaxOps
    /\ ~file_closed
    /\ write_file' = FALSE
    /\ file' = save_file(file, content, write_file)
    /\ last' = Call("save", << >>, << >>, << >>, FALSE)
    /\ nops' = nops + 1
    /\ UNCHANGED <<content, file_closed>>
    /\ UNCHANGED two_vars

\* close, also what __exit__ runs on a normal exit and on an exception
Close ==
    /\ nops < MaxOps
    /\ ~file_closed
    /\ write_file' = FALSE
    /\ file' = save_file(file, content, write_file)
    /\ file_closed' = TRUE
    /\ last' = Call("close", << >>, << >>, << >>, FALSE)
    /\ nops' = nops + 1
    /\ UNCHANGED content
    /\ UNCHANGED two_vars

Next ==
    \/ \E d \in Domains, p \in Ports, a \in AliasLists : Add(d, p, a)
    \/ \E d \in Domains, p \in Ports, a \in AliasLists : Remove(d, p, a)
    \/ Save
    \/ Close

Spec == Init /\ [][Next]_vars

\* The Documents that add and remove calls make of a file, with no record of
\* the calls kept.
DocAdd(domain, port, alias) ==
    /\ nops < MaxOps
    /\ content' = add(content, domain, port, alias)
    /\ write_file' = TRUE
    /\ nops' = nops + 1
    /\ UNCHANGED <<file, file_closed, last>>
    /\ UNCHANGED two_vars

DocRemove(domain, port, alias) ==
    /\ nops < MaxOps
    /\ content' = remove(content, domain, port, alias)
    /\ write_file' = (IF has_domain(content, domain, port) THEN TRUE ELSE write_file)
    /\ nops' = nops + 1
    /\ UNCHANGED <<file, file_closed, last>>
    /\ UNCHANGED two_vars

DocNext ==
    \/ \E d \in Domains, p \in Ports, a \in AliasLists : DocAdd(d, p, a)
    \/ \E d \in Domains, p \in Ports, a \in AliasLists : DocRemove(d, p, a)

SpecDoc == Init /\ [][DocNext]_vars

\* the single session is not used
OneIdle ==
    /\ file = EmptyFile
    /\ content = EmptyFile
    /\ write_file = FALSE
    /\ file_closed = TRUE
    /\ last = NoCall
    /\ nops = 0

TwoDomains == { <<"q", "z">>, <<"q", "j">> }

TwoInit ==
    /\ OneIdle
    /\ TwoIdle

\* VHost(): the file is opened "r+" and read, whatever other session has it
\* open
TwoOpen(s) ==
    /\ s_state[s] = "new"
    /\ s_state' = [s_state EXCEPT ![s] = "open"]
    /\ s_content' = [s_content EXCEPT ![s] = disk]
    /\ s_write_file' = [s_write_file EXCEPT ![s] = FALSE]
    /\ s_loaded' = [s_loaded EXCEPT ![s] = disk]
    /\ s_last' = SessionCall("open", s)
    /\ UNCHANGED <<disk, s_edits>>
    /\ UNCHANGED vars

TwoAdd(s, domain) ==
    /\ s_state[s] = "open"
    /\ s_edits < MaxEdits
    /\ s_content' = [s_content EXCEPT ![s] = add(s_content[s], domain, DEFAULT_PORT, << >>)]
    /\ s_write_file' = [s_write_file EXCEPT ![s] = TRUE]
    /\ s_last' = SessionCall("add", s)
    /\ s_edits' = s_edits + 1
    /\ UNCHANGED <<disk, s_state, s_loaded>>
    /\ UNCHANGED vars

TwoRemove(s, domain) ==
    /\ s_state[s] = "open"
    /\ s_edits < MaxEdits
    /\ s_content' = [s_content EXCEPT ![s] = remove(s_content[s], domain, DEFAULT_PORT, << >>)]
    /\ s_write_file' = [s_write_file EXCEPT ![s] =
                           IF has_domain(s_content[s], domain, DEFAULT_PORT)
                           THEN TRUE ELSE s_write_file[s]]
    /\ s_last' = SessionCall("remove", s)
    /\ s_edits' = s_edits + 1
    /\ UNCHANGED <<disk, s_state, s_loaded>>
    /\ UNCHANGED vars

TwoSave(s) ==
    /\ s_state[s] = "open"
    /\ disk' = save_file(disk, s_content[s], s_write_file[s])
    /\ s_write_file' = [s_write_file EXCEPT ![s] = FALSE]
    /\ s_last' = SessionCall("save", s)
    /\ UNCHANGED <<s_state, s_content, s_loaded, s_edits>>
    /\ UNCHANGED vars

TwoClose(s) ==
    /\ s_state[s] = "open"
    /\ disk' = save_file(disk, s_content[s], s_write_file[s])
    /\ s_write_file' = [s_write_file EXCEPT ![s] = FALSE]
    /\ s_state' = [s_state EXCEPT ![s] = "closed"]
    /\ s_last' = SessionCall("close", s)
    /\ UNCHANGED <<s_content, s_loaded, s_edits>>
    /\ UNCHANGED vars

TwoNext ==
    \/ \E s \in Sessions : TwoOpen(s)
    \/ \E s \in Sessions, d \in TwoDomains : TwoAdd(s, d)
    \/ \E s \in Sessions, d \in TwoDomains : TwoRemove(s, d)
    \/ \E s \in Sessions : TwoSave(s)
    \/ \E s \in Sessions : TwoClose(s)

SpecTwo == TwoInit /\ [][TwoNext]_two_vars

TypeOK ==
    /\ write_file \in BOOLEAN
    /\ nops \in 0..MaxOps
    /\ file_closed \in BOOLEAN
    /\ last.op \in {"init", "add", "remove", "save", "close"}

----------------------------------------------------------------------------
(* The structure of a Document, read off its lines *)

Lines(c) == split(c, NL)

IsOpenLine(line) == Len(line) > 0 /\ line[1] = "<VirtualHost"

IsCloseLine(line) == line = VHostClose

PrimaryLine(domain) == << "    " >> \o get_servername_line(domain)

IsAliasLine(line) ==
    Len(line) > 3 /\ SubSeq(line, 1, 3) = << "    ", "ServerAlias", " " >>

AliasValue(line) == SubSeq(line, 4, Len(line))

CloseAfter(L, s) ==
    CHOOSE e \in (s + 1)..Len(L) :
        IsCloseLine(L[e]) /\ \A k \in (s + 1)..(e - 1) : ~IsCloseLine(L[k])

\* the blocks, as pairs <<index of the open marker, index of the close marker>>
Blocks(L) ==
    { << s, CloseAfter(L, s) >> :
        s \in { k \in 1..Len(L) :
                  IsOpenLine(L[k]) /\ \E e \in (k + 1)..Len(L) : IsCloseLine(L[e]) } }

\* the blocks opened with tag port whose primary line carries exactly domain
BlocksOf(L, domain, port) ==
    { b \in Blocks(L) :
        /\ L[b[1]] = get_vhost_line(port)
        /\ \E k \in b[1]..b[2] : L[k] = PrimaryLine(domain) }

BlockLines(L, b) == SubSeq(L, b[1], b[2])

Without(L, b) == SubSeq(L, 1, b[1] - 1) \o SubSeq(L, b[2] + 1, Len(L))

InSeq(x, sq) == \E k \in 1..Len(sq) : sq[k] = x

RECURSIVE IsSubseqFrom(_, _, _, _)
IsSubseqFrom(a, b, i, k) ==
    IF i > Len(a) THEN TRUE
    ELSE IF k > Len(b) THEN FALSE
    ELSE IF a[i] = b[k] THEN IsSubseqFrom(a, b, i + 1, k + 1)
    ELSE IsSubseqFrom(a, b, i, k + 1)

\* a is b with some lines deleted
IsSubseq(a, b) == IsSubseqFrom(a, b, 1, 1)

ListedName(domain, port) == domain \o << ":" >> \o port

\* the lines of block b that alias removal of `alias` is to keep
KeptLines(L, b, alias) ==
    SelectSeq(BlockLines(L, b),
              LAMBDA line : ~(IsAliasLine(line) /\ InSeq(AliasValue(line), alias)))

\* the alias lines of the Document that carry the value x
AliasLinesFor(L, x) == { k \in 1..Len(L) : IsAliasLine(L[k]) /\ AliasValue(L[k]) = x }

PreLines == Lines(last.pre)

CurLines == Lines(content)

----------------------------------------------------------------------------
(* Claims *)

\* C1: has_domain(id, tag) is true right after add(id, tag, aliases), for
\* every alias list, whether or not the block existed before the call.
C1_ExistsAfterAdd ==
    last.op = "add" => has_domain(content, last.domain, last.port)

C1_Witness ==
    /\ last.op = "add"
    /\ ~last.found
    /\ BlocksOf(PreLines, last.domain, last.port) = {}
    /\ Len(last.alias) > 0
    /\ has_domain(content, last.domain, last.port)

\* C2: after a whole-block remove(id, tag, []) has_domain(id, tag) is false,
\* list_domains() does not list "id:tag", no block of (tag, id) is left and
\* the Document is the old one with at least that block's lines deleted; if
\* that block was the only one, list_domains() is empty.
C2_WholeBlockRemoved ==
    (last.op = "remove" /\ last.alias = << >>) =>
        /\ ~has_domain(content, last.domain, last.port)
        /\ ~InSeq(ListedName(last.domain, last.port),
                  list_domains(content, << >>, DEFAULT_PORT))
        /\ BlocksOf(CurLines, last.domain, last.port) = {}
        /\ \A b \in BlocksOf(PreLines, last.domain, last.port) :
              /\ IsSubseq(CurLines, Without(PreLines, b))
              /\ Blocks(PreLines) = {b} =>
                    list_domains(content, << >>, DEFAULT_PORT) = << >>

C2_Witness ==
    /\ last.op = "remove"
    /\ last.alias = << >>
    /\ \E b \in BlocksOf(PreLines, last.domain, last.port) :
          \E k \in b[1]..b[2] : IsAliasLine(PreLines[k])
    /\ Blocks(CurLines) # {}
    /\ ~has_domain(content, last.domain, last.port)

\* C3: a whole-block remove(id, tag, []) deletes the lines of the (tag, id)
\* block and nothing else: every other block and every line outside the
\* blocks stays, unchanged and in order.
C3_OtherBlocksKept ==
    (last.op = "remove" /\ last.alias = << >>) =>
        \A b \in BlocksOf(PreLines, last.domain, last.port) :
            CurLines = Without(PreLines, b)

\* C4: after an add no block holds two alias lines with the same value.
C4_NoDuplicateAlias ==
    last.op = "add" =>
        \A b \in Blocks(CurLines) :
            \A m, n \in b[1]..b[2] :
                (m < n /\ IsAliasLine(CurLines[m]) /\ IsAliasLine(CurLines[n]))
                    => AliasValue(CurLines[m]) # AliasValue(CurLines[n])

\* C5: when x does not occur in the Document, add(id1, tag, [x]) followed by
\* add(id2, tag, [x]), id1 # id2, leaves exactly one alias line for x, and it
\* lies in the block of id1.
C5_AliasOnlyUnderFirst ==
    (last.op = "add" /\ Len(last.alias) = 1 /\ ~Contains(last.pre, last.alias[1])) =>
        \A id2 \in Domains \ {last.domain} :
            LET x  == last.alias[1]
                L2 == Lines(add(content, id2, last.port, << x >>))
            IN  /\ Cardinality(AliasLinesFor(L2, x)) = 1
                /\ \A k \in AliasLinesFor(L2, x) :
                      \E b \in BlocksOf(L2, last.domain, last.port) :
                          k \in b[1]..b[2]

\* C6: add is idempotent: a second add with the same arguments leaves the
\* Document as the first one made it.
C6_AddIdempotent ==
    last.op = "add" =>
        /\ add(content, last.domain, last.port, last.alias) = content
        /\ last.again => content = last.pre

C6_Witness ==
    /\ last.op = "add"
    /\ last.again
    /\ Len(last.alias) > 0
    /\ AliasLinesFor(CurLines, last.alias[1]) # {}
    /\ content = last.pre

\* C7: after remove(id, tag, aliases) with aliases non-empty on a Document
\* that has the (tag, id) block, list_domains(id, tag) holds none of the
\* removed aliases, has_domain(id, tag) is still true and the block is kept,
\* in order, but for the alias lines removed.
C7_AliasRemoved ==
    (last.op = "remove" /\ Len(last.alias) > 0) =>
        \A b \in BlocksOf(PreLines, last.domain, last.port) :
            /\ \A k \in 1..Len(last.alias) :
                  ~InSeq(last.alias[k], list_domains(content, last.domain, last.port))
            /\ has_domain(content, last.domain, last.port)
            /\ \E b2 \in BlocksOf(CurLines, last.domain, last.port) :
                  BlockLines(CurLines, b2) = KeptLines(PreLines, b, last.alias)

C7_Witness ==
    /\ last.op = "remove"
    /\ Len(last.alias) > 0
    /\ \E b \in BlocksOf(PreLines, last.domain, last.port) :
          /\ \E k \in b[1]..b[2] :
                IsAliasLine(PreLines[k]) /\ InSeq(AliasValue(PreLines[k]), last.alias)
          /\ \E k \in b[1]..b[2] :
                IsAliasLine(PreLines[k]) /\ ~InSeq(AliasValue(PreLines[k]), last.alias)
    /\ list_domains(content, last.domain, last.port) # << >>

\* C8: remove(id, tag, aliases) with aliases non-empty deletes alias lines
\* inside the (tag, id) block only; every other line of the Document stays.
C8_AliasRemovalScoped ==
    (last.op = "remove" /\ Len(last.alias) > 0) =>
        \A b \in BlocksOf(PreLines, last.domain, last.port) :
            CurLines = SubSeq(PreLines, 1, b[1] - 1)
                       \o KeptLines(PreLines, b, last.alias)
                       \o SubSeq(PreLines, b[2] + 1, Len(PreLines))

\* C9: when the Document has no (tag, id) block, remove(id, tag, aliases)
\* leaves the Document and the dirty flag as they were, and
\* list_domains(id, tag) is empty.
C9_NotFoundNoOp ==
    (last.op = "remove" /\ BlocksOf(PreLines, last.domain, last.port) = {}) =>
        /\ content = last.pre
        /\ write_file = last.preDirty
        /\ list_domains(content, last.domain, last.port) = << >>

\* C10: has_domain(id, tag) is true exactly when the Document has a block
\* opened with tag whose primary line carries the identifier id.
C10_HasDomainExact ==
    last.op \in {"add", "remove"} =>
        (last.found <=> BlocksOf(PreLines, last.domain, last.port) # {})

\* the identifier on a primary line, the tag on an open marker
IsPrimaryLine(line) ==
    Len(line) > 3 /\ SubSeq(line, 1, 3) = << "    ", "ServerName", " " >>

PrimaryValue(line) == SubSeq(line, 4, Len(line))

OpenPort(line) == SubSeq(line, 4, Len(line) - 1)

PrimaryIn(L, b) == { k \in b[1]..b[2] : IsPrimaryLine(L[k]) }

AliasIn(L, b) == { k \in b[1]..b[2] : IsAliasLine(L[k]) }

\* the "id:tag" names of the blocks
BlockNames(L) ==
    UNION { { ListedName(PrimaryValue(L[k]), OpenPort(L[b[1]])) : k \in PrimaryIn(L, b) } :
            b \in Blocks(L) }

\* the alias values of block b, in file order
AliasValues(L, b) ==
    LET sel == SelectSeq(BlockLines(L, b), IsAliasLine)
    IN  [k \in 1..Len(sel) |-> AliasValue(sel[k])]

\* the number of lines of a rendered block
TemplateLines == Len(Lines(vhost_template(<< >>, << >>, << >>))) - 1

WellFormed(L) ==
    LET opens  == { k \in 1..Len(L) : IsOpenLine(L[k]) }
        closes == { k \in 1..Len(L) : IsCloseLine(L[k]) }
    IN  /\ opens = { b[1] : b \in Blocks(L) }
        /\ closes = { b[2] : b \in Blocks(L) }
        /\ \A b \in Blocks(L) : \A k \in (b[1] + 1)..b[2] : ~IsOpenLine(L[k])
        /\ \A b \in Blocks(L) :
              /\ Cardinality(PrimaryIn(L, b)) = 1
              /\ \A m \in PrimaryIn(L, b), n \in AliasIn(L, b) : m < n

\* C11: list_domains() returns one entry "id:tag" for each block of the
\* Document and nothing else, in sorted order.
C11_ListAllBlocks ==
    LET lst == list_domains(content, << >>, DEFAULT_PORT)
        L   == CurLines
    IN  /\ Len(lst) = Cardinality(Blocks(L))
        /\ { lst[k] : k \in 1..Len(lst) } = BlockNames(L)
        /\ \A m, n \in 1..Len(lst) : m < n => ~StrLess(lst[n], lst[m])

C11_Witness ==
    /\ nops > 0
    /\ content # file
    /\ Cardinality(Blocks(CurLines)) >= 3
    /\ \E b \in Blocks(CurLines) :
          /\ \A b2 \in Blocks(CurLines) : b[1] <= b2[1]
          /\ list_domains(content, << >>, DEFAULT_PORT)[1] \notin BlockNames(BlockLines(CurLines, b))

\* C12: list_domains(id, tag) returns the alias values of the alias lines
\* of the (tag, id) block, and only those, in file order.
C12_ListAliasFileOrder ==
    last.op \in {"add", "remove"} =>
        \A b \in BlocksOf(CurLines, last.domain, last.port) :
            list_domains(content, last.domain, last.port) = AliasValues(CurLines, b)

\* C13: when save or close returns, the file holds exactly the in-memory
\* Document (nothing of a longer old content is left behind it) and the
\* dirty flag is false; close also leaves the file closed.
C13_SavePersists ==
    last.op \in {"save", "close"} =>
        /\ file = content
        /\ ~write_file
        /\ last.op = "close" => file_closed

C13_Witness ==
    /\ last.op = "close"
    /\ last.preDirty
    /\ file_closed
    /\ file = content
    /\ file # EmptyFile
    /\ Blocks(Lines(file)) = {}

HasBlock(c, domain) == BlocksOf(Lines(c), domain, DEFAULT_PORT) # {}

\* session s and session t read the same file when they opened, then s added
\* the block of x and nothing else, t the block of y and nothing else
BothAdded(s, t, x, y) ==
    /\ s # t
    /\ x # y
    /\ s_state[s] # "new"
    /\ s_state[t] # "new"
    /\ s_loaded[s] = s_loaded[t]
    /\ ~HasBlock(s_loaded[s], x)
    /\ ~HasBlock(s_loaded[s], y)
    /\ s_content[s] = add(s_loaded[s], x, DEFAULT_PORT, << >>)
    /\ s_content[t] = add(s_loaded[t], y, DEFAULT_PORT, << >>)

\* C14: nothing keeps two sessions from having the same file open; when both
\* read the same file, each added a different identifier and each saved,
\* the file is the Document of the session that saved last: it holds that
\* session's block and not the block of the other session.
C14_LastWriterWins ==
    \A s, t \in Sessions : \A x, y \in TwoDomains :
        ( /\ BothAdded(s, t, x, y)
          /\ s_last.op \in {"save", "close"}
          /\ s_last.s = s
          /\ s_last.preDirty
          /\ ~s_write_file[t] )
        => /\ disk = s_content[s]
           /\ HasBlock(disk, x)
           /\ ~HasBlock(disk, y)

C14_Witness ==
    \E s, t \in Sessions : \E x, y \in TwoDomains :
        /\ BothAdded(s, t, x, y)
        /\ s_last.op = "save"
        /\ s_last.s = s
        /\ s_last.preDirty
        /\ ~s_write_file[t]
        /\ s_state[s] = "open"
        /\ s_state[t] = "open"
        /\ s_last.preDisk = s_content[t]
        /\ HasBlock(s_last.preDisk, y)
        /\ ~HasBlock(disk, y)

\* C15: add puts the new alias lines directly after the primary line of the
\* (tag, id) block, in the order of the alias list, hence before the alias
\* lines the block had already.
C15_NewAliasAfterPrimary ==
    last.op = "add" =>
        LET L == CurLines
            P == PreLines
        IN  \A b \in BlocksOf(L, last.domain, last.port) :
                LET old == BlocksOf(P, last.domain, last.port)
                    k   == CHOOSE n \in b[1]..b[2] : L[n] = PrimaryLine(last.domain)
                    m   == Len(BlockLines(L, b))
                           - (IF old = {} THEN TemplateLines
                              ELSE Len(BlockLines(P, CHOOSE bp \in old : TRUE)))
                IN  /\ m >= 0
                    /\ \A n \in 1..m : IsAliasLine(L[k + n])
                    /\ IsSubseq([n \in 1..m |-> AliasValue(L[k + n])], last.alias)
                    /\ \A bp \in old :
                          LET kp == CHOOSE n \in bp[1]..bp[2] :
                                        P[n] = PrimaryLine(last.domain)
                          IN  SubSeq(L, k + m + 1, b[2]) = SubSeq(P, kp + 1, bp[2])

C15_Witness ==
    /\ last.op = "add"
    /\ \E bp \in BlocksOf(PreLines, last.domain, last.port) :
          \E b \in BlocksOf(CurLines, last.domain, last.port) :
              /\ AliasIn(PreLines, bp) # {}
              /\ Len(BlockLines(CurLines, b)) > Len(BlockLines(PreLines, bp))
              /\ AliasValues(CurLines, b)[1] = last.alias[1]

\* C16: add deletes, changes and reorders no line: the new lines are alias
\* lines inside the (tag, id) block and, when the block was absent, the
\* rendered block at the end of the Document with one more line after it.
C16_AddOnlyAdds ==
    last.op = "add" =>
        /\ IsSubseq(PreLines, CurLines)
        /\ IF BlocksOf(PreLines, last.domain, last.port) = {}
           THEN \E b \in BlocksOf(CurLines, last.domain, last.port) :
                    /\ SubSeq(CurLines, 1, b[1] - 1) = PreLines
                    /\ SubSeq(CurLines, b[2] + 1, Len(CurLines)) = << << >> >>
                    /\ SelectSeq(BlockLines(CurLines, b), LAMBDA line : ~IsAliasLine(line))
                         = SubSeq(Lines(vhost_template(last.domain,
                                                       get_domaindir(last.domain),
                                                       last.port)), 1, TemplateLines)
           ELSE \A bp \in BlocksOf(PreLines, last.domain, last.port) :
                    \E b \in BlocksOf(CurLines, last.domain, last.port) :
                        /\ Without(CurLines, b) = Without(PreLines, bp)
                        /\ IsSubseq(BlockLines(PreLines, bp), BlockLines(CurLines, b))
                        /\ SelectSeq(BlockLines(CurLines, b), LAMBDA line : ~IsAliasLine(line))
                             = SelectSeq(BlockLines(PreLines, bp), LAMBDA line : ~IsAliasLine(line))

\* C17: the Document never holds two blocks of the same (tag, identifier).
C17_OneBlockPerPair ==
    LET L  == CurLines
        Bs == Blocks(L)
        id == [b \in Bs |-> << L[b[1]], { L[k] : k \in PrimaryIn(L, b) } >>]
    IN  \A b1, b2 \in Bs :
            (id[b1][1] = id[b2][1] /\ id[b1][2] \cap id[b2][2] # {}) => b1 = b2

C17_Witness ==
    /\ last.op = "add"
    /\ last.again
    /\ last.found
    /\ Cardinality(BlocksOf(PreLines, last.domain, last.port)) = 1
    /\ Cardinality(BlocksOf(CurLines, last.domain, last.port)) = 1
    /\ Cardinality(Blocks(CurLines)) >= 2

\* C18: save and close of a session whose dirty flag is false leave the file
\* as it is; so when an outer and an inner session have the file open, as
\* in main, the close of the outer one keeps what the inner one saved.
C18_CleanSessionNeverWrites ==
    (s_last.op \in {"save", "close"} /\ ~s_last.preDirty) => disk = s_last.preDisk

C18_Witness ==
    \E s, t \in Sessions :
        /\ s # t
        /\ s_last.op = "close"
        /\ s_last.s = s
        /\ ~s_last.preDirty
        /\ s_state[s] = "closed"
        /\ s_state[t] = "closed"
        /\ s_loaded[s] = s_loaded[t]
        /\ s_content[s] = s_loaded[s]
        /\ s_content[t] # s_loaded[t]
        /\ disk = s_content[t]
        /\ disk # s_content[s]

\* C19: in every reachable Document the open and close markers are balanced
\* and not nested, and every block has exactly one primary line, which
\* comes before all its alias lines.
C19_WellFormed == WellFormed(CurLines)

C19_Witness ==
    /\ last.op = "remove"
    /\ Len(last.alias) > 0
    /\ content # last.pre
    /\ Cardinality(Blocks(CurLines)) >= 2
    /\ \E b \in Blocks(CurLines) : AliasIn(CurLines, b) # {}
    /\ WellFormed(CurLines)

\* C20: when the Document C has no (tag, id) block, add(id, tag, aliases)
\* followed by remove(id, tag, []) yields C followed by one newline.
C20_AddRemoveLeavesNewline ==
    (last.op = "add" /\ BlocksOf(PreLines, last.domain, last.port) = {}) =>
        remove(content, last.domain, last.port, << >>) = last.pre \o << NL >>

====
